---- MODULE Spec2Model ----
(***************************************************************************)
(* State-machine model of the Plate Scope front end: the router and        *)
(* navigation bar (App.jsx, Navbar) and the page components Menu,          *)
(* TrashOfToday, WasteTrend, OptimizeMenu, Metrics and Admin, with their   *)
(* view state (one record per component, one field per useState), their    *)
(* HTTP requests in flight and the handlers that run when a response       *)
(* arrives.                                                                *)
(*                                                                         *)
(* JavaScript values: null of an object-valued state is the record null,   *)
(* null of a text-valued state is the text nullText; the text of an input  *)
(* element is a string, "" when the input is empty; a field that a         *)
(* response body lacks is a field absent from the record's DOMAIN.         *)
(***************************************************************************)
EXTENDS Integers, Sequences, FiniteSets, TLC

\* ------------------------------------------------------------------ bounds
MaxReq == 4       \* requests sent in one run
MaxMounts == 2    \* component instances mounted in one run
MaxEdits == 1     \* events without a request in one run, beyond the edits a form needs to be submitted
MaxDishes == 4    \* dishes in a GET /dishes_waste_rates response

\* ------------------------------------------------------- values and helpers
null == [null |-> TRUE]
nullText == "null"
\* x || y of JavaScript for a text x: "" is falsy
OrText(x, y) == IF x # "" THEN x ELSE y

\* the backend's error texts; "" stands for a failure without response or
\* without an error field in its body
BackendErrors == {"", "backend: bad request"}

Failures == {[ok |-> FALSE, error |-> e] : e \in BackendErrors}

\* faulty variant of ErrorMessage: the fallback text alone, whatever the response carries
StaticErrorMessage(o, fallback) == fallback

\* err.response?.data?.error || fallback
ErrorMessage(o, fallback) == OrText(o.error, fallback)

\* ---------------------------------------------------------------- endpoints
KDishes == "GET /dishes_waste_rates"
KDays == "GET /days_overview"
KTopDish == "GET /day/{date}/top_dish"
KOptimize == "POST /optimize_menu"
KImpact == "POST /predict_waste_impact"
KTrend == "POST /waste_trend_chart"
KAddDay == "POST /add_day"

\* -------------------------------------------------------------------- pages
StatefulPages == {"Menu", "TrashOfToday", "WasteTrend", "OptimizeMenu", "Metrics", "Admin"}
Pages == StatefulPages \cup {"Home", "About"}
NoPage == "none"

VARIABLES
  path,          \* location.pathname of the router
  mobileOpen,    \* Navbar state
  toolsOpen,     \* Navbar state
  mounted,       \* the page component that is rendered, or NoPage
  inst,          \* number of component instances mounted so far; the mounted instance is number inst
  edits,         \* events so far that sent no request: field edits, submits that returned early
  nextId,        \* id of the next request
  requests,      \* HTTP requests in flight
  menu,          \* view state of Menu
  trashOfToday,  \* view state of TrashOfToday
  wasteTrend,    \* view state of WasteTrend
  optimizeMenu,  \* view state of OptimizeMenu
  metrics,       \* view state of Metrics
  admin,         \* view state of Admin
  latest,        \* per form: id of the request the mounted instance submitted last
  observed,      \* the page with state that this run mounts, NoPage before the first mount of one
  submitCount,   \* submit events handled so far
  lateCalls      \* the setters the last step called on a component that was no longer mounted

navVars == <<path, mobileOpen, toolsOpen>>
pageVars == <<menu, trashOfToday, wasteTrend, optimizeMenu, metrics, admin>>
countVars == <<observed, submitCount>>
vars == <<path, mobileOpen, toolsOpen, mounted, inst, edits, nextId, requests,
          menu, trashOfToday, wasteTrend, optimizeMenu, metrics, admin,
          latest, observed, submitCount, lateCalls>>

\* ------------------------------------------------------------ dishes (backend)
DishIds == 1 .. MaxDishes
DishNameOf(i) ==
  IF i = 1 THEN "pizza" ELSE IF i = 2 THEN "salad" ELSE IF i = 3 THEN "soup"
  ELSE IF i = 4 THEN "rice" ELSE "stew"
Dish(i) == [id |-> i, name |-> DishNameOf(i)]
\* the lists the backend may return: no dish, or every dish it has
DishLists == {[k \in 1 .. n |-> Dish(k)] : n \in {0, MaxDishes}}
\* bodies of GET /dishes_waste_rates: with a dishes field, or without one
DishesBodies == {[dishes |-> l] : l \in DishLists} \cup {[message |-> "no dishes"]}
\* res.data.dishes || []
DishesOrEmpty(body) == IF "dishes" \in DOMAIN body THEN body.dishes ELSE <<>>

Today == "2025-11-09"

\* ------------------------------------------------------------------ requests
Request(id, page, i, kind, payload) ==
  [id |-> id, page |-> page, inst |-> i, kind |-> kind, payload |-> payload]

\* a response reaches a live component when the instance that sent the request is still mounted
Live(r) == mounted = r.page /\ inst = r.inst

\* ======================================================================= Menu
MenuInitial == [dishes |-> <<>>, loading |-> TRUE, error |-> nullText]

\* Menu.useEffect: fetchDishes() issues the GET
MenuFetch(id, i) == Request(id, "Menu", i, KDishes, [params |-> "none"])

\* faulty variant of MenuFetchDishesDone: setLoading(false) at the end of the
\* try block instead of in finally
MenuFetchDishesDoneNoFinally(m, o) ==
  IF o.ok
    THEN [m EXCEPT !.dishes = DishesOrEmpty(o.body), !.loading = FALSE]
    ELSE [m EXCEPT !.error = "Failed to load dishes"]

\* fetchDishes after the await: try / catch / finally
MenuFetchDishesDone(m, o) ==
  IF o.ok
    THEN [m EXCEPT !.dishes = DishesOrEmpty(o.body), !.loading = FALSE]
    ELSE [m EXCEPT !.error = "Failed to load dishes", !.loading = FALSE]

MenuFetchDishesSetters(o) == IF o.ok THEN {"setDishes", "setLoading"} ELSE {"setError", "setLoading"}

\* what Menu renders
MenuView(m) == IF m.loading THEN "Loading..." ELSE IF m.error # nullText THEN "error" ELSE "dishes"

\* =============================================================== TrashOfToday
TrashInitial == [data |-> null, status |-> "loading"]

TrashFetch(id, i) == Request(id, "TrashOfToday", i, KTopDish, [date |-> Today])

\* bodies of GET /day/{date}/top_dish for request r
TopDishBodies(r) ==
  { [req |-> r.id, date |-> r.payload.date, top_dish |-> [dish_name |-> "pizza", quantity |-> 12]],
    [req |-> r.id, date |-> r.payload.date] }

\* faulty variant of TrashFetchTopDishDone: the catch block only logs
TrashFetchTopDishDoneSilent(t, o) ==
  IF o.ok
    THEN [t EXCEPT !.data = o.body, !.status = "ok"]
    ELSE t

TrashFetchTopDishDone(t, o) ==
  IF o.ok
    THEN [t EXCEPT !.data = o.body, !.status = "ok"]
    ELSE [t EXCEPT !.status = "empty"]

TrashFetchTopDishSetters(o) == IF o.ok THEN {"setData", "setStatus"} ELSE {"setStatus"}

TrashView(t) ==
  IF t.status = "loading" THEN "Loading"
  ELSE IF t.status = "empty" \/ t.data = null \/ "top_dish" \notin DOMAIN t.data THEN "No data for today yet"
  ELSE "dish card"

\* ================================================================= WasteTrend
WasteTrendInitial ==
  [startDate |-> "", endDate |-> "", loading |-> FALSE, status |-> null, chartData |-> null]

\* the texts a date input can hold, "" when it is empty
DateTexts == {"", "2025-11-01", "2025-11-08"}
DateOrd(d) == IF d = "2025-11-01" THEN 1 ELSE IF d = "2025-11-08" THEN 8 ELSE 0

\* faulty variant of WasteTrendDatesMissing: only the start date is looked at
WasteTrendStartMissing(w) == w.startDate = ""

\* !startDate || !endDate
WasteTrendDatesMissing(w) == w.startDate = "" \/ w.endDate = ""

\* <button type="submit" disabled={loading}>
WasteTrendSubmitDisabled(w) == w.loading

WasteTrendPayload(w) == [start_date |-> w.startDate, end_date |-> w.endDate]

\* faulty variant of WasteTrendHandleSubmit: the chart of the previous request
\* is left in place
WasteTrendHandleSubmitKeepingChart(w) ==
  LET cleared == [w EXCEPT !.status = null]
  IN  IF WasteTrendDatesMissing(w)
        THEN [cleared EXCEPT !.status =
                [type |-> "error", message |-> "Please select both start and end dates."]]
        ELSE [cleared EXCEPT !.loading = TRUE]

\* handleSubmit up to the await (or to the early return)
WasteTrendHandleSubmit(w) ==
  LET cleared == [w EXCEPT !.status = null, !.chartData = null]
  IN  IF WasteTrendDatesMissing(w)
        THEN [cleared EXCEPT !.status =
                [type |-> "error", message |-> "Please select both start and end dates."]]
        ELSE [cleared EXCEPT !.loading = TRUE]

\* bodies of POST /waste_trend_chart
TrendBodies(r) ==
  { [success |-> TRUE,
     chart_data |-> [image_base64 |-> "iVBOR", date_range |-> r.payload.start_date, total_days |-> 3]],
    [success |-> TRUE],
    [success |-> FALSE] }

\* res.data && res.data.success && res.data.chart_data
TrendHasChart(body) == "success" \in DOMAIN body /\ body.success /\ "chart_data" \in DOMAIN body

\* handleSubmit after the await: try / catch / finally
WasteTrendSubmitDone(w, o) ==
  IF o.ok
    THEN IF TrendHasChart(o.body)
           THEN [w EXCEPT !.chartData = o.body.chart_data, !.status = null, !.loading = FALSE]
           ELSE [w EXCEPT !.status =
                   [type |-> "error", message |-> "Could not generate chart. Please try again."],
                 !.loading = FALSE]
    ELSE [w EXCEPT !.status =
            [type |-> "error",
             message |-> ErrorMessage(o, "Failed to generate chart. Check the dates.")],
          !.loading = FALSE]

WasteTrendSubmitSetters(o) ==
  IF o.ok /\ TrendHasChart(o.body) THEN {"setChartData", "setStatus", "setLoading"}
  ELSE {"setStatus", "setLoading"}

\* =============================================================== OptimizeMenu
\* the text of a number input; useState(80) is held as the text the input shows
NumberOf(s) ==
  CASE s = "" -> 0  [] s = "0" -> 0  [] s = "1" -> 1  [] s = "3" -> 3  [] s = "5" -> 5
    [] s = "7" -> 7  [] s = "12" -> 12  [] s = "30" -> 30  [] s = "40" -> 40  [] s = "50" -> 50
    [] s = "80" -> 80  [] s = "120" -> 120  [] s = "200" -> 200

QuantityTexts == {"200"}
NumDishesTexts == {"0"}
ReqFields == {"require_staple", "require_vegetable", "require_protein", "require_dairy"}
\* the checkboxes the runs click: one that starts checked, one that starts unchecked
ToggledFields == {"require_staple", "require_protein"}

OptimizeInitial ==
  [dishes |-> <<>>, selectedIds |-> <<>>, constraints |-> <<>>,
   totalMin |-> "80", totalMax |-> "120", numDishes |-> "3",
   requirements |-> [require_staple |-> TRUE, require_vegetable |-> TRUE,
                     require_protein |-> FALSE, require_dairy |-> FALSE],
   result |-> null, error |-> nullText, loading |-> FALSE]

OptimizeFetch(id, i) ==
  Request(id, "OptimizeMenu", i, KDishes, [sort |-> "desc", order_by |-> "waste_rate"])

\* list.map((d) => d.id)
IdsOf(list) == [k \in 1 .. Len(list) |-> list[k].id]
Includes(seq, x) == \E k \in 1 .. Len(seq) : seq[k] = x
\* prev.filter((x) => x !== id)
RECURSIVE Without(_, _)
Without(seq, x) ==
  IF seq = <<>> THEN <<>>
  ELSE IF Head(seq) = x THEN Without(Tail(seq), x)
  ELSE <<Head(seq)>> \o Without(Tail(seq), x)

\* fetchDishes after the await
OptimizeFetchDishesDone(s, o) ==
  IF o.ok
    THEN LET list == DishesOrEmpty(o.body)
         IN  [s EXCEPT !.dishes = list,
                       !.selectedIds = IdsOf(list),
                       !.constraints = [i \in {list[k].id : k \in 1 .. Len(list)} |->
                                          [min |-> "5", max |-> "30"]]]
    ELSE [s EXCEPT !.dishes = <<>>]

OptimizeFetchDishesSetters(o) ==
  IF o.ok THEN {"setDishes", "setSelectedIds", "setConstraints"} ELSE {"setDishes"}

\* faulty variant of toggleDishSelected: the id is appended without a look at
\* what is selected already
toggleDishSelectedAppending(s, id) == [s EXCEPT !.selectedIds = Append(@, id)]

toggleDishSelected(s, id) ==
  [s EXCEPT !.selectedIds =
     IF Includes(@, id) THEN Without(@, id) ELSE Append(@, id)]

handleConstraintChange(s, id, field, value) ==
  LET prev == s.constraints
      old == IF id \in DOMAIN prev THEN DOMAIN prev[id] ELSE {}
      entry == [f \in old \cup {field} |-> IF f = field THEN value ELSE prev[id][f]]
  IN  [s EXCEPT !.constraints =
         [k \in DOMAIN prev \cup {id} |-> IF k = id THEN entry ELSE prev[k]]]

handleRequirementToggle(s, field) ==
  [s EXCEPT !.requirements[field] = ~@]

\* <button type="submit" disabled={loading}>
OptimizeSubmitDisabled(s) == s.loading

\* faulty variant of OptimizeFormValid: a form that also refuses a total range
\* whose minimum exceeds its maximum
OptimizeFormValidOrdered(s) ==
  /\ s.numDishes = "" \/ NumberOf(s.numDishes) >= 1
  /\ NumberOf(s.totalMin) <= NumberOf(s.totalMax)

\* <input type="number" min="1" value={numDishes}>: the browser does not
\* dispatch submit while the input holds a number below its minimum
OptimizeFormValid(s) == s.numDishes = "" \/ NumberOf(s.numDishes) >= 1

\* faulty variant of OptimizePayload: constraints are sent for the selected dishes only
OptimizePayloadSelectedOnly(s) ==
  [total_quantity_range |-> <<NumberOf(s.totalMin), NumberOf(s.totalMax)>>,
   num_dishes |-> NumberOf(s.numDishes),
   dish_constraints |-> [id \in {i \in DOMAIN s.constraints : Includes(s.selectedIds, i)} |->
                           [min |-> NumberOf(s.constraints[id].min),
                            max |-> NumberOf(s.constraints[id].max)]],
   category_requirements |-> s.requirements,
   available_dishes |-> s.selectedIds]

\* the payload built in handleSubmit; the keys of constraints are already
\* property names, String(id) leaves them as they are
OptimizePayload(s) ==
  [total_quantity_range |-> <<NumberOf(s.totalMin), NumberOf(s.totalMax)>>,
   num_dishes |-> NumberOf(s.numDishes),
   dish_constraints |-> [id \in DOMAIN s.constraints |->
                           [min |-> NumberOf(s.constraints[id].min),
                            max |-> NumberOf(s.constraints[id].max)]],
   category_requirements |-> s.requirements,
   available_dishes |-> s.selectedIds]

\* faulty variant of OptimizeHandleSubmit: setResult(null) is missing
OptimizeHandleSubmitKeepingResult(s) == [s EXCEPT !.error = nullText, !.loading = TRUE]

\* handleSubmit up to the await
OptimizeHandleSubmit(s) == [s EXCEPT !.error = nullText, !.result = null, !.loading = TRUE]

undefined == [undefined |-> TRUE]
\* !x for an object-valued x
Falsy(x) == x = null \/ x = undefined

\* bodies of POST /optimize_menu
OptimizeBodies(r) ==
  { [optimization_result |->
       [optimization_status |-> "Optimal", selected_dishes |-> r.payload.available_dishes]],
    [message |-> "no result"] }

\* res.data.optimization_result
OptimizationResultOf(body) ==
  IF "optimization_result" \in DOMAIN body THEN body.optimization_result ELSE undefined

\* handleSubmit after the await: try / catch / finally
OptimizeSubmitDone(s, o) ==
  IF o.ok
    THEN [s EXCEPT !.result = OptimizationResultOf(o.body), !.loading = FALSE]
    ELSE [s EXCEPT !.error = ErrorMessage(o, "Failed to optimize menu. Check constraints."),
                   !.loading = FALSE]

OptimizeSubmitSetters(o) == IF o.ok THEN {"setResult", "setLoading"} ELSE {"setError", "setLoading"}

\* ==================================================================== Metrics
MetricsInitial ==
  [summary |-> null, topDishes |-> <<>>, dishOptions |-> <<>>, selectedDish |-> "",
   adjustment |-> "80", impact |-> null, impactError |-> nullText,
   dateInput |-> "", topDishDay |-> null, dayError |-> nullText, barsLoaded |-> FALSE]

AdjustmentTexts == {"50"}

MetricsFetchSummary(id, i) == Request(id, "Metrics", i, KDays, [params |-> "none"])
MetricsFetchDishes(id, i) ==
  Request(id, "Metrics", i, KDishes, [sort |-> "desc", order_by |-> "waste_rate"])

\* bodies of GET /days_overview: an array of days (days), or something that is not an array
DayA == [date |-> "2025-11-01", total_waste |-> 4,
         servings |-> <<[dish_name |-> "pizza"], [dish_name |-> "salad"]>>]
DayB == [date |-> "2025-11-08", servings |-> <<[dish_name |-> "pizza"], [dish_name |-> ""]>>]
DaysBodies == {[days |-> <<>>], [days |-> <<DayA, DayB>>], [message |-> "no days"]}

\* day.total_waste || 0
TotalWasteOf(day) == IF "total_waste" \in DOMAIN day THEN day.total_waste ELSE 0
\* day.servings || []
ServingsOf(day) == IF "servings" \in DOMAIN day THEN day.servings ELSE <<>>

RECURSIVE SumWaste(_)
SumWaste(days) == IF days = <<>> THEN 0 ELSE TotalWasteOf(Head(days)) + SumWaste(Tail(days))

\* faulty variant of DishNamesOf: every dish_name is added, the empty one too
DishNamesOfAll(days) ==
  {ServingsOf(days[d])[k].dish_name : <<d, k>> \in
     {<<d, k>> \in (1 .. Len(days)) \X (1 .. 4) : k <= Len(ServingsOf(days[d]))}}

\* the Set of the truthy dish_name values of all servings of all days
DishNamesOf(days) ==
  {ServingsOf(days[d])[k].dish_name : <<d, k>> \in
     {<<d, k>> \in (1 .. Len(days)) \X (1 .. 4) :
        k <= Len(ServingsOf(days[d])) /\ ServingsOf(days[d])[k].dish_name # ""}}

\* fetchSummary after the await; avgDailyWaste is kept as the exact quotient
MetricsFetchSummaryDone(m, o) ==
  IF o.ok /\ "days" \in DOMAIN o.body /\ Len(o.body.days) > 0
    THEN LET days == o.body.days
         IN  [m EXCEPT !.summary =
                [totalDays |-> Len(days),
                 avgDailyWaste |-> [num |-> SumWaste(days), den |-> Len(days)],
                 totalWaste |-> SumWaste(days),
                 dishCount |-> Cardinality(DishNamesOf(days))]]
    ELSE [m EXCEPT !.summary = null]

MetricsFetchSummarySetters(o) == {"setSummary"}

\* dishes.slice(0, 3)
Slice3(seq) == SubSeq(seq, 1, IF Len(seq) < 3 THEN Len(seq) ELSE 3)

\* fetchDishes after the await
MetricsFetchDishesDone(m, o) ==
  IF o.ok
    THEN LET dishes == DishesOrEmpty(o.body)
         IN  [m EXCEPT !.topDishes = Slice3(dishes),
                       !.dishOptions = dishes,
                       !.selectedDish = IF Len(dishes) > 0 THEN dishes[1].name ELSE @,
                       !.barsLoaded = TRUE]
    ELSE [m EXCEPT !.topDishes = <<>>, !.dishOptions = <<>>]

MetricsFetchDishesSetters(o) ==
  IF ~o.ok THEN {"setTopDishes", "setDishOptions"}
  ELSE IF Len(DishesOrEmpty(o.body)) > 0
    THEN {"setTopDishes", "setDishOptions", "setSelectedDish", "setBarsLoaded"}
    ELSE {"setTopDishes", "setDishOptions", "setBarsLoaded"}

\* the submit buttons of Metrics carry no disabled attribute
ImpactSubmitDisabled(m) == FALSE
TopDishDaySubmitDisabled(m) == FALSE

ImpactPayload(m) ==
  [dish_name |-> m.selectedDish, adjustment_percentage |-> NumberOf(m.adjustment)]

\* faulty variant of handleImpactSubmit: the results and errors of both forms
\* are cleared before the check of selectedDish
handleImpactSubmitClearsFirst(m) ==
  [m EXCEPT !.impactError = nullText, !.impact = null, !.dayError = nullText, !.topDishDay = null]

\* handleImpactSubmit up to the await (or to the early return)
handleImpactSubmit(m) ==
  IF m.selectedDish = "" THEN m
  ELSE [m EXCEPT !.impactError = nullText, !.impact = null]

\* bodies of POST /predict_waste_impact for request r
ImpactBodies(r) == { [req |-> r.id, dish_name |-> r.payload.dish_name, current_waste_rate |-> 1] }

handleImpactSubmitDone(m, o) ==
  IF o.ok
    THEN [m EXCEPT !.impact = o.body]
    ELSE [m EXCEPT !.impactError = ErrorMessage(o, "Failed to compute impact. Try another dish.")]

handleImpactSubmitSetters(o) == IF o.ok THEN {"setImpact"} ELSE {"setImpactError"}

TopDishDayPayload(m) == [date |-> m.dateInput]

\* handleTopDishDay up to the await (or to the early return)
handleTopDishDay(m) ==
  IF m.dateInput = "" THEN m
  ELSE [m EXCEPT !.dayError = nullText, !.topDishDay = null]

\* faulty variant of handleTopDishDayDone: the answer to a request older than
\* the one submitted last is dropped
handleTopDishDayDoneNewestOnly(m, o) ==
  IF o.ok
    THEN IF o.body.req < latest[KTopDish] THEN m ELSE [m EXCEPT !.topDishDay = o.body]
    ELSE [m EXCEPT !.dayError = ErrorMessage(o, "Could not load top dish for that date.")]

handleTopDishDayDone(m, o) ==
  IF o.ok
    THEN [m EXCEPT !.topDishDay = o.body]
    ELSE [m EXCEPT !.dayError = ErrorMessage(o, "Could not load top dish for that date.")]

handleTopDishDaySetters(o) == IF o.ok THEN {"setTopDishDay"} ELSE {"setDayError"}

\* ====================================================================== Admin
BlankRow == [dish_name |-> "", quantity |-> "", image_path |-> ""]

AdminInitial ==
  [date |-> "", totalWaste |-> "", servings |-> <<BlankRow>>, status |-> null, loading |-> FALSE]

RowFields == {"dish_name", "quantity", "image_path"}
RowTexts(field) ==
  IF field = "dish_name" THEN {"pizza"}
  ELSE IF field = "quantity" THEN {"12"}
  ELSE {"/images/pizza.png"}

\* s.trim() on the texts of the model
Trim(s) == IF s = " " THEN "" ELSE s

handleServingChange(a, index, field, value) ==
  [a EXCEPT !.servings[index][field] = value]

addServingRow(a) == [a EXCEPT !.servings = Append(@, BlankRow)]

\* servings.filter((_, i) => i !== index)
RemoveAt(seq, index) ==
  [k \in 1 .. (Len(seq) - 1) |-> IF k < index THEN seq[k] ELSE seq[k + 1]]

\* faulty variant of removeServingRow: the filtered list is stored as it is
removeServingRowToEmpty(a, index) == [a EXCEPT !.servings = RemoveAt(a.servings, index)]

removeServingRow(a, index) ==
  LET updated == RemoveAt(a.servings, index)
  IN  [a EXCEPT !.servings = IF Len(updated) > 0 THEN updated ELSE <<BlankRow>>]

\* faulty variant of AdminSubmitDisabled: a button without the disabled attribute
AdminSubmitNeverDisabled(a) == FALSE

\* <button type="submit" disabled={loading}>
AdminSubmitDisabled(a) == a.loading

\* the inputs marked required: date, totalWaste, and dish_name and quantity of
\* every row; the browser does not dispatch submit while one of them is empty
AdminFormValid(a) ==
  /\ a.date # ""
  /\ a.totalWaste # ""
  /\ \A k \in 1 .. Len(a.servings) : a.servings[k].dish_name # "" /\ a.servings[k].quantity # ""

\* one row of the payload; parseFloat only meets the non-empty texts of a required number input
ServingPayload(s) ==
  IF Trim(s.image_path) # ""
    THEN [dish_name |-> Trim(s.dish_name), quantity |-> NumberOf(s.quantity),
          image_path |-> Trim(s.image_path)]
    ELSE [dish_name |-> Trim(s.dish_name), quantity |-> NumberOf(s.quantity)]

RECURSIVE ServingsPayload(_)
ServingsPayload(rows) ==
  IF rows = <<>> THEN <<>>
  ELSE IF Trim(Head(rows).dish_name) # ""
    THEN <<ServingPayload(Head(rows))>> \o ServingsPayload(Tail(rows))
    ELSE ServingsPayload(Tail(rows))

AdminPayload(a) ==
  [date |-> a.date, total_waste |-> NumberOf(a.totalWaste), servings |-> ServingsPayload(a.servings)]

\* handleSubmit up to the await
AdminHandleSubmit(a) == [a EXCEPT !.status = null, !.loading = TRUE]

\* bodies of POST /add_day
AddDayBodies(r) == { [message |-> "Day added"] }

\* faulty variant of AdminSubmitDone: the form is reset in finally, after a
\* failure as well
AdminSubmitDoneResetAlways(a, o) ==
  IF o.ok
    THEN [a EXCEPT !.status = [type |-> "success", message |-> o.body.message],
                   !.date = "", !.totalWaste = "", !.servings = <<BlankRow>>,
                   !.loading = FALSE]
    ELSE [a EXCEPT !.status =
            [type |-> "error", message |-> ErrorMessage(o, "Failed to add day. Check the data.")],
          !.date = "", !.totalWaste = "", !.servings = <<BlankRow>>,
          !.loading = FALSE]

\* faulty variant of AdminSubmitDone: setLoading(false) at the end of the try
\* block instead of in finally
AdminSubmitDoneNoFinally(a, o) ==
  IF o.ok
    THEN [a EXCEPT !.status = [type |-> "success", message |-> o.body.message],
                   !.date = "", !.totalWaste = "", !.servings = <<BlankRow>>,
                   !.loading = FALSE]
    ELSE [a EXCEPT !.status =
            [type |-> "error", message |-> ErrorMessage(o, "Failed to add day. Check the data.")]]

\* handleSubmit after the await: try / catch / finally
AdminSubmitDone(a, o) ==
  IF o.ok
    THEN [a EXCEPT !.status = [type |-> "success", message |-> o.body.message],
                   !.date = "", !.totalWaste = "", !.servings = <<BlankRow>>,
                   !.loading = FALSE]
    ELSE [a EXCEPT !.status =
            [type |-> "error", message |-> ErrorMessage(o, "Failed to add day. Check the data.")],
          !.loading = FALSE]

AdminSubmitSetters(o) ==
  IF o.ok THEN {"setStatus", "setDate", "setTotalWaste", "setServings", "setLoading"}
  ELSE {"setStatus", "setLoading"}

\* ========================================================== router and Navbar
\* the NavLink targets of Navbar
LinkTargets == {"/", "/menu", "/about", "/admin", "/metrics", "/trash", "/optimize-menu", "/waste-trend"}

\* the NavLink targets inside the Dashboard dropdown
DropdownTargets == {"/admin", "/metrics", "/trash", "/optimize-menu", "/waste-trend"}

\* the paths isDashboardActive looks for
DashboardPaths == {"/admin", "/metrics", "/trash", "/optimize-menu"}

\* toolsOpen || [...].includes(location.pathname)
isDashboardActive == toolsOpen \/ path \in DashboardPaths

\* the Route paths App declares
RoutePaths == {"/", "/menu", "/about", "/metrics", "/admin"}

\* the element of the Route that matches a declared path
RouteElement(p) ==
  CASE p = "/" -> "Home"
    [] p = "/menu" -> "Menu"
    [] p = "/about" -> "About"
    [] p = "/metrics" -> "Metrics"
    [] p = "/admin" -> "Admin"

\* what Routes renders for a path: the matching Route's element, or nothing
Routed(p) == IF p \in RoutePaths THEN RouteElement(p) ELSE NoPage

\* the page components no Route of App renders; their host mounts them
UnroutedPages == {"TrashOfToday", "OptimizeMenu", "WasteTrend"}

\* ============================================================== the machinery
FormKinds == {KAddDay, KTrend, KOptimize, KImpact, KTopDish}
NoSubmissions == [k \in FormKinds |-> 0]

\* the edits that make the form of a page submittable: the four required
\* inputs of Admin, the two dates of WasteTrend, the date of Metrics
NeededEdits(p) ==
  CASE p = "Admin" -> 4
    [] p = "WasteTrend" -> 2
    [] p = "Metrics" -> 1
    [] OTHER -> 0

EditBudget(p) == NeededEdits(p) + MaxEdits

Outcomes(bodies) == {[ok |-> TRUE, body |-> b] : b \in bodies} \cup Failures

\* faulty variant of OnMount: only the first instance fetches, later mounts
\* count on what an earlier one loaded
OnMountCached(p, id, i) ==
  IF i > 1 THEN {}
  ELSE CASE p = "Menu" -> {MenuFetch(id, i)}
         [] p = "TrashOfToday" -> {TrashFetch(id, i)}
         [] p = "OptimizeMenu" -> {OptimizeFetch(id, i)}
         [] p = "Metrics" -> {MetricsFetchSummary(id, i), MetricsFetchDishes(id + 1, i)}
         [] OTHER -> {}

\* the requests the useEffect of a page issues when instance i of it mounts
OnMount(p, id, i) ==
  CASE p = "Menu" -> {MenuFetch(id, i)}
    [] p = "TrashOfToday" -> {TrashFetch(id, i)}
    [] p = "OptimizeMenu" -> {OptimizeFetch(id, i)}
    [] p = "Metrics" -> {MetricsFetchSummary(id, i), MetricsFetchDishes(id + 1, i)}
    [] OTHER -> {}

\* faulty variant of SwitchTo: the unmount aborts the requests in flight
SwitchToCancelling(p) ==
  LET new == IF p \in StatefulPages THEN inst + 1 ELSE inst
      reqs == OnMount(p, nextId, new)
  IN  /\ new <= MaxMounts
      /\ p \in StatefulPages => observed \in {NoPage, p}
      /\ nextId + Cardinality(reqs) - 1 <= MaxReq
      /\ mounted' = p
      /\ inst' = new
      /\ edits' = edits
      /\ requests' = reqs
      /\ nextId' = nextId + Cardinality(reqs)
      /\ menu' = MenuInitial
      /\ trashOfToday' = TrashInitial
      /\ wasteTrend' = WasteTrendInitial
      /\ optimizeMenu' = OptimizeInitial
      /\ metrics' = MetricsInitial
      /\ admin' = AdminInitial
      /\ latest' = NoSubmissions
      /\ observed' = IF p \in StatefulPages THEN p ELSE observed
      /\ UNCHANGED submitCount
      /\ lateCalls' = {}

\* the mounted component is unmounted and its state dropped; p (if any) is
\* mounted as a new instance with the state its useState calls give it, and
\* its effects run. The pages share nothing (each holds its own state, and a
\* response reaches only the instance that sent the request), so a run
\* observes one page with state, mounted any number of times up to MaxMounts
SwitchTo(p) ==
  LET new == IF p \in StatefulPages THEN inst + 1 ELSE inst
      reqs == OnMount(p, nextId, new)
  IN  /\ new <= MaxMounts
      /\ p \in StatefulPages => observed \in {NoPage, p}
      /\ nextId + Cardinality(reqs) - 1 <= MaxReq
      /\ mounted' = p
      /\ inst' = new
      /\ edits' = edits
      /\ requests' = requests \cup reqs
      /\ nextId' = nextId + Cardinality(reqs)
      /\ menu' = MenuInitial
      /\ trashOfToday' = TrashInitial
      /\ wasteTrend' = WasteTrendInitial
      /\ optimizeMenu' = OptimizeInitial
      /\ metrics' = MetricsInitial
      /\ admin' = AdminInitial
      /\ latest' = NoSubmissions
      /\ observed' = IF p \in StatefulPages THEN p ELSE observed
      /\ UNCHANGED submitCount
      /\ lateCalls' = {}

\* closeMobile, then the router follows the link
NavClick(t) ==
  /\ t \in LinkTargets
  /\ path' = t
  /\ mobileOpen' = FALSE
  /\ toolsOpen' = FALSE
  /\ IF Routed(t) = mounted
       THEN /\ lateCalls' = {}
            /\ UNCHANGED <<mounted, inst, edits, nextId, requests, pageVars, latest, countVars>>
       ELSE SwitchTo(Routed(t))

\* the two toggles of Navbar touch no page and no request; they are steps of
\* the navigation bar alone and Next, which follows the pages, leaves them out
toggleMobile ==
  /\ mobileOpen' = ~mobileOpen
  /\ lateCalls' = {}
  /\ UNCHANGED <<path, toolsOpen, mounted, inst, edits, nextId, requests, pageVars, latest, countVars>>

toggleTools ==
  /\ toolsOpen' = ~toolsOpen
  /\ lateCalls' = {}
  /\ UNCHANGED <<path, mobileOpen, mounted, inst, edits, nextId, requests, pageVars, latest, countVars>>

\* the link that names an unrouted component
LinkOf(p) ==
  CASE p = "TrashOfToday" -> "/trash"
    [] p = "OptimizeMenu" -> "/optimize-menu"
    [] p = "WasteTrend" -> "/waste-trend"

\* the link of an unrouted component was followed, Routes rendered nothing,
\* and the component's host renders it
Render(p) ==
  /\ p \in UnroutedPages
  /\ path = LinkOf(p)
  /\ mounted = NoPage
  /\ SwitchTo(p)
  /\ UNCHANGED navVars

Navigate == \E t \in LinkTargets : NavClick(t)

HostRender == \E p \in UnroutedPages : Render(p)

\* a field edit on the mounted page: no request, no counter
Edit(page) ==
  /\ mounted = page
  /\ edits < EditBudget(page)
  /\ edits' = edits + 1
  /\ lateCalls' = {}
  /\ UNCHANGED <<navVars, mounted, inst, nextId, requests, latest, countVars>>

\* a submit handler that returns without sending
SubmitOnly(page) ==
  /\ mounted = page
  /\ edits < EditBudget(page)
  /\ edits' = edits + 1
  /\ submitCount' = submitCount + 1
  /\ lateCalls' = {}
  /\ UNCHANGED <<navVars, mounted, inst, nextId, requests, latest, observed>>

\* a submit handler that sends one request
SubmitSend(page, kind, payload) ==
  /\ mounted = page
  /\ nextId <= MaxReq
  /\ requests' = requests \cup {Request(nextId, page, inst, kind, payload)}
  /\ nextId' = nextId + 1
  /\ latest' = [latest EXCEPT ![kind] = nextId]
  /\ submitCount' = submitCount + 1
  /\ lateCalls' = {}
  /\ UNCHANGED <<navVars, mounted, inst, edits, observed>>

\* faulty variant of Arrive: the handler sends the request again when it has settled
ArriveAndRetry(r, setters) ==
  /\ r \in requests
  /\ IF nextId <= MaxReq
       THEN /\ requests' = (requests \ {r}) \cup {[r EXCEPT !.id = nextId]}
            /\ nextId' = nextId + 1
       ELSE /\ requests' = requests \ {r}
            /\ nextId' = nextId
  /\ lateCalls' = IF Live(r) THEN {} ELSE setters
  /\ UNCHANGED <<navVars, mounted, inst, edits, latest, countVars>>

\* the response (or failure) o of request r arrives and the rest of the handler runs
Arrive(r, setters) ==
  /\ r \in requests
  /\ requests' = requests \ {r}
  /\ lateCalls' = IF Live(r) THEN {} ELSE setters
  /\ UNCHANGED <<navVars, mounted, inst, edits, nextId, latest, countVars>>

Pending(page, kind) == {r \in requests : r.page = page /\ r.kind = kind}

\* ----------------------------------------------------------------------- Menu
MenuResponse(r, o) ==
  /\ r \in Pending("Menu", KDishes)
  /\ o \in Outcomes(DishesBodies)
  /\ Arrive(r, MenuFetchDishesSetters(o))
  /\ menu' = IF Live(r) THEN MenuFetchDishesDone(menu, o) ELSE menu
  /\ UNCHANGED <<trashOfToday, wasteTrend, optimizeMenu, metrics, admin>>

MenuFetchDishesArrives ==
  \E r \in Pending("Menu", KDishes) : \E o \in Outcomes(DishesBodies) : MenuResponse(r, o)

\* --------------------------------------------------------------- TrashOfToday
TrashResponse(r, o) ==
  /\ r \in Pending("TrashOfToday", KTopDish)
  /\ o \in Outcomes(TopDishBodies(r))
  /\ Arrive(r, TrashFetchTopDishSetters(o))
  /\ trashOfToday' = IF Live(r) THEN TrashFetchTopDishDone(trashOfToday, o) ELSE trashOfToday
  /\ UNCHANGED <<menu, wasteTrend, optimizeMenu, metrics, admin>>

TrashFetchTopDishArrives ==
  \E r \in Pending("TrashOfToday", KTopDish) : \E o \in Outcomes(TopDishBodies(r)) : TrashResponse(r, o)

\* ----------------------------------------------------------------- WasteTrend
WasteTrendSetStartDate ==
  \E d \in DateTexts :
    /\ Edit("WasteTrend")
    /\ wasteTrend' = [wasteTrend EXCEPT !.startDate = d]
    /\ UNCHANGED <<menu, trashOfToday, optimizeMenu, metrics, admin>>

WasteTrendSetEndDate ==
  \E d \in DateTexts :
    /\ Edit("WasteTrend")
    /\ wasteTrend' = [wasteTrend EXCEPT !.endDate = d]
    /\ UNCHANGED <<menu, trashOfToday, optimizeMenu, metrics, admin>>

WasteTrendSubmit ==
  /\ ~WasteTrendSubmitDisabled(wasteTrend)
  /\ IF WasteTrendDatesMissing(wasteTrend)
       THEN SubmitOnly("WasteTrend")
       ELSE SubmitSend("WasteTrend", KTrend, WasteTrendPayload(wasteTrend))
  /\ wasteTrend' = WasteTrendHandleSubmit(wasteTrend)
  /\ UNCHANGED <<menu, trashOfToday, optimizeMenu, metrics, admin>>

WasteTrendResponse(r, o) ==
  /\ r \in Pending("WasteTrend", KTrend)
  /\ o \in Outcomes(TrendBodies(r))
  /\ Arrive(r, WasteTrendSubmitSetters(o))
  /\ wasteTrend' = IF Live(r) THEN WasteTrendSubmitDone(wasteTrend, o) ELSE wasteTrend
  /\ UNCHANGED <<menu, trashOfToday, optimizeMenu, metrics, admin>>

WasteTrendSubmitArrives ==
  \E r \in Pending("WasteTrend", KTrend) : \E o \in Outcomes(TrendBodies(r)) : WasteTrendResponse(r, o)

\* --------------------------------------------------------------- OptimizeMenu
OptimizeFetchResponse(r, o) ==
  /\ r \in Pending("OptimizeMenu", KDishes)
  /\ o \in Outcomes(DishesBodies)
  /\ Arrive(r, OptimizeFetchDishesSetters(o))
  /\ optimizeMenu' = IF Live(r) THEN OptimizeFetchDishesDone(optimizeMenu, o) ELSE optimizeMenu
  /\ UNCHANGED <<menu, trashOfToday, wasteTrend, metrics, admin>>

OptimizeFetchDishesArrives ==
  \E r \in Pending("OptimizeMenu", KDishes) : \E o \in Outcomes(DishesBodies) : OptimizeFetchResponse(r, o)

\* the rows of a rendered list the runs click: the first and the last
ClickedRows(list) == {k \in 1 .. Len(list) : k = 1 \/ k = Len(list)}

\* the rows rendered are those of dishes
OptimizeToggleDish ==
  \E k \in ClickedRows(optimizeMenu.dishes) :
    /\ Edit("OptimizeMenu")
    /\ optimizeMenu' = toggleDishSelected(optimizeMenu, optimizeMenu.dishes[k].id)
    /\ UNCHANGED <<menu, trashOfToday, wasteTrend, metrics, admin>>

OptimizeConstraintChange ==
  \E k \in ClickedRows(optimizeMenu.dishes) : \E field \in {"min", "max"} : \E v \in QuantityTexts :
    /\ Edit("OptimizeMenu")
    /\ optimizeMenu' = handleConstraintChange(optimizeMenu, optimizeMenu.dishes[k].id, field, v)
    /\ UNCHANGED <<menu, trashOfToday, wasteTrend, metrics, admin>>

OptimizeRequirementToggle ==
  \E field \in ToggledFields :
    /\ Edit("OptimizeMenu")
    /\ optimizeMenu' = handleRequirementToggle(optimizeMenu, field)
    /\ UNCHANGED <<menu, trashOfToday, wasteTrend, metrics, admin>>

OptimizeSetTotalMin ==
  \E v \in QuantityTexts :
    /\ Edit("OptimizeMenu")
    /\ optimizeMenu' = [optimizeMenu EXCEPT !.totalMin = v]
    /\ UNCHANGED <<menu, trashOfToday, wasteTrend, metrics, admin>>

OptimizeSetTotalMax ==
  \E v \in QuantityTexts :
    /\ Edit("OptimizeMenu")
    /\ optimizeMenu' = [optimizeMenu EXCEPT !.totalMax = v]
    /\ UNCHANGED <<menu, trashOfToday, wasteTrend, metrics, admin>>

OptimizeSetNumDishes ==
  \E v \in NumDishesTexts :
    /\ Edit("OptimizeMenu")
    /\ optimizeMenu' = [optimizeMenu EXCEPT !.numDishes = v]
    /\ UNCHANGED <<menu, trashOfToday, wasteTrend, metrics, admin>>

OptimizeSubmit ==
  /\ ~OptimizeSubmitDisabled(optimizeMenu)
  /\ OptimizeFormValid(optimizeMenu)
  /\ SubmitSend("OptimizeMenu", KOptimize, OptimizePayload(optimizeMenu))
  /\ optimizeMenu' = OptimizeHandleSubmit(optimizeMenu)
  /\ UNCHANGED <<menu, trashOfToday, wasteTrend, metrics, admin>>

OptimizeSubmitResponse(r, o) ==
  /\ r \in Pending("OptimizeMenu", KOptimize)
  /\ o \in Outcomes(OptimizeBodies(r))
  /\ Arrive(r, OptimizeSubmitSetters(o))
  /\ optimizeMenu' = IF Live(r) THEN OptimizeSubmitDone(optimizeMenu, o) ELSE optimizeMenu
  /\ UNCHANGED <<menu, trashOfToday, wasteTrend, metrics, admin>>

OptimizeSubmitArrives ==
  \E r \in Pending("OptimizeMenu", KOptimize) : \E o \in Outcomes(OptimizeBodies(r)) : OptimizeSubmitResponse(r, o)

\* -------------------------------------------------------------------- Metrics
MetricsSummaryResponse(r, o) ==
  /\ r \in Pending("Metrics", KDays)
  /\ o \in Outcomes(DaysBodies)
  /\ Arrive(r, MetricsFetchSummarySetters(o))
  /\ metrics' = IF Live(r) THEN MetricsFetchSummaryDone(metrics, o) ELSE metrics
  /\ UNCHANGED <<menu, trashOfToday, wasteTrend, optimizeMenu, admin>>

MetricsFetchSummaryArrives ==
  \E r \in Pending("Metrics", KDays) : \E o \in Outcomes(DaysBodies) : MetricsSummaryResponse(r, o)

MetricsDishesResponse(r, o) ==
  /\ r \in Pending("Metrics", KDishes)
  /\ o \in Outcomes(DishesBodies)
  /\ Arrive(r, MetricsFetchDishesSetters(o))
  /\ metrics' = IF Live(r) THEN MetricsFetchDishesDone(metrics, o) ELSE metrics
  /\ UNCHANGED <<menu, trashOfToday, wasteTrend, optimizeMenu, admin>>

MetricsFetchDishesArrives ==
  \E r \in Pending("Metrics", KDishes) : \E o \in Outcomes(DishesBodies) : MetricsDishesResponse(r, o)

\* the options of the select are the names of dishOptions
MetricsSetSelectedDish ==
  \E k \in ClickedRows(metrics.dishOptions) :
    /\ Edit("Metrics")
    /\ metrics' = [metrics EXCEPT !.selectedDish = metrics.dishOptions[k].name]
    /\ UNCHANGED <<menu, trashOfToday, wasteTrend, optimizeMenu, admin>>

MetricsSetAdjustment ==
  \E v \in AdjustmentTexts :
    /\ Edit("Metrics")
    /\ metrics' = [metrics EXCEPT !.adjustment = v]
    /\ UNCHANGED <<menu, trashOfToday, wasteTrend, optimizeMenu, admin>>

MetricsSetDateInput ==
  \E d \in DateTexts :
    /\ Edit("Metrics")
    /\ metrics' = [metrics EXCEPT !.dateInput = d]
    /\ UNCHANGED <<menu, trashOfToday, wasteTrend, optimizeMenu, admin>>

MetricsImpactSubmit ==
  /\ ~ImpactSubmitDisabled(metrics)
  /\ IF metrics.selectedDish = ""
       THEN SubmitOnly("Metrics")
       ELSE SubmitSend("Metrics", KImpact, ImpactPayload(metrics))
  /\ metrics' = handleImpactSubmit(metrics)
  /\ UNCHANGED <<menu, trashOfToday, wasteTrend, optimizeMenu, admin>>

MetricsImpactResponse(r, o) ==
  /\ r \in Pending("Metrics", KImpact)
  /\ o \in Outcomes(ImpactBodies(r))
  /\ Arrive(r, handleImpactSubmitSetters(o))
  /\ metrics' = IF Live(r) THEN handleImpactSubmitDone(metrics, o) ELSE metrics
  /\ UNCHANGED <<menu, trashOfToday, wasteTrend, optimizeMenu, admin>>

MetricsImpactArrives ==
  \E r \in Pending("Metrics", KImpact) : \E o \in Outcomes(ImpactBodies(r)) : MetricsImpactResponse(r, o)

MetricsTopDishDaySubmit ==
  /\ ~TopDishDaySubmitDisabled(metrics)
  /\ IF metrics.dateInput = ""
       THEN SubmitOnly("Metrics")
       ELSE SubmitSend("Metrics", KTopDish, TopDishDayPayload(metrics))
  /\ metrics' = handleTopDishDay(metrics)
  /\ UNCHANGED <<menu, trashOfToday, wasteTrend, optimizeMenu, admin>>

MetricsTopDishDayResponse(r, o) ==
  /\ r \in Pending("Metrics", KTopDish)
  /\ o \in Outcomes(TopDishBodies(r))
  /\ Arrive(r, handleTopDishDaySetters(o))
  /\ metrics' = IF Live(r) THEN handleTopDishDayDone(metrics, o) ELSE metrics
  /\ UNCHANGED <<menu, trashOfToday, wasteTrend, optimizeMenu, admin>>

MetricsTopDishDayArrives ==
  \E r \in Pending("Metrics", KTopDish) : \E o \in Outcomes(TopDishBodies(r)) : MetricsTopDishDayResponse(r, o)

\* ---------------------------------------------------------------------- Admin
AdminSetDate ==
  \E d \in {"", "2025-11-01"} :
    /\ Edit("Admin")
    /\ admin' = [admin EXCEPT !.date = d]
    /\ UNCHANGED <<menu, trashOfToday, wasteTrend, optimizeMenu, metrics>>

AdminSetTotalWaste ==
  \E v \in {"", "7"} :
    /\ Edit("Admin")
    /\ admin' = [admin EXCEPT !.totalWaste = v]
    /\ UNCHANGED <<menu, trashOfToday, wasteTrend, optimizeMenu, metrics>>

AdminServingChange ==
  \E index \in 1 .. Len(admin.servings) : \E field \in RowFields : \E v \in RowTexts(field) :
    /\ Edit("Admin")
    /\ admin' = handleServingChange(admin, index, field, v)
    /\ UNCHANGED <<menu, trashOfToday, wasteTrend, optimizeMenu, metrics>>

AdminAddRow ==
  /\ Edit("Admin")
  /\ admin' = addServingRow(admin)
  /\ UNCHANGED <<menu, trashOfToday, wasteTrend, optimizeMenu, metrics>>

AdminRemoveRow ==
  \E index \in 1 .. Len(admin.servings) :
    /\ Edit("Admin")
    /\ admin' = removeServingRow(admin, index)
    /\ UNCHANGED <<menu, trashOfToday, wasteTrend, optimizeMenu, metrics>>

AdminSubmit ==
  /\ ~AdminSubmitDisabled(admin)
  /\ AdminFormValid(admin)
  /\ SubmitSend("Admin", KAddDay, AdminPayload(admin))
  /\ admin' = AdminHandleSubmit(admin)
  /\ UNCHANGED <<menu, trashOfToday, wasteTrend, optimizeMenu, metrics>>

AdminResponse(r, o) ==
  /\ r \in Pending("Admin", KAddDay)
  /\ o \in Outcomes(AddDayBodies(r))
  /\ Arrive(r, AdminSubmitSetters(o))
  /\ admin' = IF Live(r) THEN AdminSubmitDone(admin, o) ELSE admin
  /\ UNCHANGED <<menu, trashOfToday, wasteTrend, optimizeMenu, metrics>>

AdminSubmitArrives ==
  \E r \in Pending("Admin", KAddDay) : \E o \in Outcomes(AddDayBodies(r)) : AdminResponse(r, o)

\* ============================================================== specification
\* the application starts at "/" with the Home route rendered
Init ==
  /\ path = "/"
  /\ mobileOpen = FALSE
  /\ toolsOpen = FALSE
  /\ mounted = "Home"
  /\ inst = 0
  /\ edits = 0
  /\ nextId = 1
  /\ requests = {}
  /\ menu = MenuInitial
  /\ trashOfToday = TrashInitial
  /\ wasteTrend = WasteTrendInitial
  /\ optimizeMenu = OptimizeInitial
  /\ metrics = MetricsInitial
  /\ admin = AdminInitial
  /\ latest = NoSubmissions
  /\ observed = NoPage
  /\ submitCount = 0
  /\ lateCalls = {}

Next ==
  \/ Navigate
  \/ HostRender
  \/ MenuFetchDishesArrives
  \/ TrashFetchTopDishArrives
  \/ WasteTrendSetStartDate
  \/ WasteTrendSetEndDate
  \/ WasteTrendSubmit
  \/ WasteTrendSubmitArrives
  \/ OptimizeFetchDishesArrives
  \/ OptimizeToggleDish
  \/ OptimizeConstraintChange
  \/ OptimizeRequirementToggle
  \/ OptimizeSetTotalMin
  \/ OptimizeSetTotalMax
  \/ OptimizeSetNumDishes
  \/ OptimizeSubmit
  \/ OptimizeSubmitArrives
  \/ MetricsFetchSummaryArrives
  \/ MetricsFetchDishesArrives
  \/ MetricsSetSelectedDish
  \/ MetricsSetAdjustment
  \/ MetricsSetDateInput
  \/ MetricsImpactSubmit
  \/ MetricsImpactArrives
  \/ MetricsTopDishDaySubmit
  \/ MetricsTopDishDayArrives
  \/ AdminSetDate
  \/ AdminSetTotalWaste
  \/ AdminServingChange
  \/ AdminAddRow
  \/ AdminRemoveRow
  \/ AdminSubmit
  \/ AdminSubmitArrives

Spec == Init /\ [][Next]_vars

\* ================================================================= properties
\* the requests of a form that the mounted instance has in flight
InFlightOf(page, kind) == {r \in Pending(page, kind) : Live(r)}

\* the GETs the useEffect of a page issues, counted and named from the source
MountFetches(p) ==
  CASE p = "Metrics" -> 2
    [] p \in {"Menu", "TrashOfToday", "OptimizeMenu"} -> 1
    [] OTHER -> 0

MountKinds(p) ==
  CASE p = "Metrics" -> {KDays, KDishes}
    [] p = "TrashOfToday" -> {KTopDish}
    [] p \in {"Menu", "OptimizeMenu"} -> {KDishes}
    [] OTHER -> {}

\* a step in which the user edits a field, toggles a checkbox or adds or removes a row
EditStep ==
  \/ WasteTrendSetStartDate \/ WasteTrendSetEndDate
  \/ OptimizeToggleDish \/ OptimizeConstraintChange \/ OptimizeRequirementToggle
  \/ OptimizeSetTotalMin \/ OptimizeSetTotalMax \/ OptimizeSetNumDishes
  \/ MetricsSetSelectedDish \/ MetricsSetAdjustment \/ MetricsSetDateInput
  \/ AdminSetDate \/ AdminSetTotalWaste \/ AdminServingChange \/ AdminAddRow \/ AdminRemoveRow

\* ------------------------------------------------------------------------- C1
\* C1: in Metrics a successful response that reaches the mounted instance is
\* written to topDishDay (handleTopDishDay) or impact (handleImpactSubmit)
\* whatever the age of its request: nothing compares it with the request
\* submitted last, so the answer to an older request replaces the state a
\* newer one wrote.
StaleResponseOverwrites ==
  [][ \A r \in requests \ requests' :
        (Live(r) /\ r.page = "Metrics") =>
          /\ r.kind = KTopDish =>
                \A o \in Outcomes(TopDishBodies(r)) :
                  (MetricsTopDishDayResponse(r, o) /\ o.ok) => metrics'.topDishDay = o.body
          /\ r.kind = KImpact =>
                \A o \in Outcomes(ImpactBodies(r)) :
                  (MetricsImpactResponse(r, o) /\ o.ok) => metrics'.impact = o.body
    ]_vars

\* topDishDay holds the answer to a request older than the one submitted
\* last, and that last request has been answered, without an error
StaleAnswerHeld ==
  /\ mounted = "Metrics"
  /\ metrics.topDishDay # null
  /\ metrics.topDishDay.req < latest[KTopDish]
  /\ metrics.dayError = nullText
  /\ \A r \in requests : r.id # latest[KTopDish]

\* ------------------------------------------------------------------------- C2
\* C2 as amended: a failure that reaches the mounted instance is handled by
\* the handler that made the call. Menu and TrashOfToday then show a fixed
\* text; WasteTrend, OptimizeMenu.handleSubmit, Admin and the two forms of
\* Metrics show the error field of the failed response when it carries a
\* non-empty one and a fixed text otherwise; OptimizeMenu.fetchDishes only
\* empties the dish list and shows no message, and the two on-mount fetches
\* of Metrics only empty their data, which Metrics renders as its fixed
\* placeholders.
FailureSurfaced ==
  [][ \A r \in requests \ requests' : \A o \in Failures :
        Live(r) =>
          /\ (r.page = "Menu" /\ MenuResponse(r, o)) =>
                /\ menu'.error = "Failed to load dishes"
                /\ MenuView(menu') = "error"
          /\ (r.page = "TrashOfToday" /\ TrashResponse(r, o)) =>
                TrashView(trashOfToday') = "No data for today yet"
          /\ (r.page = "WasteTrend" /\ WasteTrendResponse(r, o)) =>
                wasteTrend'.status =
                  [type |-> "error",
                   message |-> IF o.error # "" THEN o.error
                               ELSE "Failed to generate chart. Check the dates."]
          /\ (r.page = "OptimizeMenu" /\ r.kind = KOptimize /\ OptimizeSubmitResponse(r, o)) =>
                optimizeMenu'.error =
                  IF o.error # "" THEN o.error ELSE "Failed to optimize menu. Check constraints."
          /\ (r.page = "Admin" /\ AdminResponse(r, o)) =>
                admin'.status =
                  [type |-> "error",
                   message |-> IF o.error # "" THEN o.error ELSE "Failed to add day. Check the data."]
          /\ (r.page = "Metrics" /\ r.kind = KImpact /\ MetricsImpactResponse(r, o)) =>
                metrics'.impactError =
                  IF o.error # "" THEN o.error ELSE "Failed to compute impact. Try another dish."
          /\ (r.page = "Metrics" /\ r.kind = KTopDish /\ MetricsTopDishDayResponse(r, o)) =>
                metrics'.dayError =
                  IF o.error # "" THEN o.error ELSE "Could not load top dish for that date."
          /\ (r.page = "OptimizeMenu" /\ r.kind = KDishes /\ OptimizeFetchResponse(r, o)) =>
                optimizeMenu' = [optimizeMenu EXCEPT !.dishes = <<>>]
          /\ (r.page = "Metrics" /\ r.kind = KDays /\ MetricsSummaryResponse(r, o)) =>
                metrics' = [metrics EXCEPT !.summary = null]
          /\ (r.page = "Metrics" /\ r.kind = KDishes /\ MetricsDishesResponse(r, o)) =>
                metrics' = [metrics EXCEPT !.topDishes = <<>>, !.dishOptions = <<>>]
    ]_vars

\* Admin shows the text the backend sent with the failure
BackendTextShown ==
  /\ mounted = "Admin"
  /\ admin.status = [type |-> "error", message |-> "backend: bad request"]

\* the texts that are written in the source of the pages
StaticTexts ==
  {nullText, "Failed to load dishes", "Please select both start and end dates.",
   "Could not generate chart. Please try again.", "Failed to generate chart. Check the dates.",
   "Failed to optimize menu. Check constraints.", "Failed to add day. Check the data.",
   "Failed to compute impact. Try another dish.", "Could not load top dish for that date."}

\* C2 as stated: every error message a page shows is one of the fixed texts
\* of its source, whatever the failed response contained
OnlyStaticTextsShown ==
  /\ menu.error \in StaticTexts
  /\ optimizeMenu.error \in StaticTexts
  /\ metrics.impactError \in StaticTexts
  /\ metrics.dayError \in StaticTexts
  /\ (wasteTrend.status # null /\ wasteTrend.status.type = "error") =>
       wasteTrend.status.message \in StaticTexts
  /\ (admin.status # null /\ admin.status.type = "error") => admin.status.message \in StaticTexts

\* ------------------------------------------------------------------------- C3
\* C3: no page re-issues a request: a step adds requests only when a
\* component mounts or a submit event is handled, and the number of requests
\* sent never exceeds the on-mount fetches of the mounts plus the submit
\* events.
NoRetry ==
  /\ [](nextId - 1 <= inst * MountFetches(observed) + submitCount)
  /\ [][ \/ requests' \subseteq requests
         \/ inst' = inst + 1
         \/ submitCount' = submitCount + 1 /\ Cardinality(requests' \ requests) = 1
       ]_vars

\* a request of the mounted page has failed (Menu shows the failure) and
\* nothing is in flight afterwards
FailedAndQuiet ==
  /\ mounted = "Menu"
  /\ menu.error = "Failed to load dishes"
  /\ requests = {}

\* ------------------------------------------------------------------------- C4
\* C4 as amended: only the two forms of Metrics accept a second submission
\* while the first is in flight. Admin, WasteTrend and OptimizeMenu disable
\* their submit button while loading, so a mounted instance of them has at
\* most one request of its form in flight, and the button is disabled for as
\* long as it has one.
OnlyMetricsOverlaps ==
  /\ Cardinality(InFlightOf("Admin", KAddDay)) <= 1
  /\ Cardinality(InFlightOf("WasteTrend", KTrend)) <= 1
  /\ Cardinality(InFlightOf("OptimizeMenu", KOptimize)) <= 1
  /\ InFlightOf("Admin", KAddDay) # {} => ~ENABLED AdminSubmit
  /\ InFlightOf("WasteTrend", KTrend) # {} => ~ENABLED WasteTrendSubmit
  /\ InFlightOf("OptimizeMenu", KOptimize) # {} => ~ENABLED OptimizeSubmit
  /\ (mounted = "Metrics" /\ nextId <= MaxReq /\ metrics.dateInput # "") =>
       ENABLED (MetricsTopDishDaySubmit /\ nextId' = nextId + 1)
  /\ (mounted = "Metrics" /\ nextId <= MaxReq /\ metrics.selectedDish # "") =>
       ENABLED (MetricsImpactSubmit /\ nextId' = nextId + 1)

\* two requests of the same form of Metrics are in flight at once
TwoSubmissionsInFlight ==
  \/ Cardinality(InFlightOf("Metrics", KTopDish)) >= 2
  \/ Cardinality(InFlightOf("Metrics", KImpact)) >= 2

\* C4 as stated: on every page with a form a second submission can be
\* started while the first request is in flight
SecondSubmissionAlwaysPossible ==
  /\ (InFlightOf("Admin", KAddDay) # {} /\ nextId <= MaxReq) => ENABLED AdminSubmit
  /\ (InFlightOf("WasteTrend", KTrend) # {} /\ nextId <= MaxReq) => ENABLED WasteTrendSubmit
  /\ (InFlightOf("OptimizeMenu", KOptimize) # {} /\ nextId <= MaxReq /\ OptimizeFormValid(optimizeMenu)) =>
       ENABLED OptimizeSubmit
  /\ (InFlightOf("Metrics", KTopDish) # {} /\ nextId <= MaxReq) => ENABLED MetricsTopDishDaySubmit
  /\ (InFlightOf("Metrics", KImpact) # {} /\ nextId <= MaxReq) => ENABLED MetricsImpactSubmit

\* ------------------------------------------------------------------------- C5
\* C5: OptimizeMenu shows what the backend returns: a successful response to
\* POST /optimize_menu leaves result equal to the optimization_result of the
\* body and error null, a failed one leaves error set and result null; result
\* and error are never both set.
OptimizeShowsBackendResult ==
  /\ [](optimizeMenu.result = null \/ optimizeMenu.error = nullText)
  /\ [][ \A r \in requests \ requests' :
           (Live(r) /\ r.kind = KOptimize) =>
             \A o \in Outcomes(OptimizeBodies(r)) :
               OptimizeSubmitResponse(r, o) =>
                 IF o.ok
                   THEN /\ optimizeMenu'.result =
                             IF "optimization_result" \in DOMAIN o.body
                               THEN o.body.optimization_result ELSE undefined
                        /\ optimizeMenu'.error = nullText
                   ELSE /\ optimizeMenu'.error # nullText
                        /\ optimizeMenu'.result = null
       ]_vars

\* a second submission has failed after an earlier one was answered: the
\* error is shown and no result is left
OptimizeFailedAfterAnswer ==
  /\ mounted = "OptimizeMenu"
  /\ submitCount >= 2
  /\ optimizeMenu.error # nullText
  /\ optimizeMenu.result = null
  /\ ~optimizeMenu.loading

\* ------------------------------------------------------------------------- C6
\* C6: when WasteTrend.handleSubmit runs with startDate or endDate empty it
\* sends nothing, loading stays false, chartData is null and status is the
\* error 'Please select both start and end dates.'; when both are non-empty
\* it sends one POST /waste_trend_chart with the two dates.
WasteTrendRequiresBothDates ==
  [][ WasteTrendSubmit =>
        IF wasteTrend.startDate = "" \/ wasteTrend.endDate = ""
          THEN /\ requests' = requests
               /\ ~wasteTrend.loading /\ ~wasteTrend'.loading
               /\ wasteTrend'.chartData = null
               /\ wasteTrend'.status =
                    [type |-> "error", message |-> "Please select both start and end dates."]
          ELSE /\ Cardinality(requests' \ requests) = 1
               /\ \A r \in requests' \ requests :
                    /\ r.kind = KTrend
                    /\ r.payload = [start_date |-> wasteTrend.startDate, end_date |-> wasteTrend.endDate]
    ]_vars

\* handleSubmit has run with the start date chosen and the end date empty
WasteTrendRefusedOneDate ==
  /\ mounted = "WasteTrend"
  /\ wasteTrend.startDate # ""
  /\ wasteTrend.endDate = ""
  /\ wasteTrend.status = [type |-> "error", message |-> "Please select both start and end dates."]
  /\ requests = {}

\* ------------------------------------------------------------------------- C7
\* the request a submit of the OptimizeMenu form would send is refused by
\* nothing but the budget of the run
OptimizeSubmitSends == ENABLED (OptimizeSubmit /\ Cardinality(requests' \ requests) = 1)
WasteTrendSubmitSends == ENABLED (WasteTrendSubmit /\ Cardinality(requests' \ requests) = 1)

\* C7 as amended: the handlers check no relation between the entered values.
\* OptimizeMenu sends POST /optimize_menu for every submit of whole-number
\* inputs whose numDishes input passes its min="1" (it is empty or holds a
\* number of at least 1), whatever the other values (totalMin > totalMax, a
\* dish min > max, num_dishes above the number of selected dishes, no dish
\* selected); the browser refuses such a submit only while numDishes holds
\* a number below 1.
\* WasteTrend sends its request whenever both dates are chosen, also when
\* the start date is later than the end date.
OnlyMinOfNumDishesChecked ==
  /\ (mounted = "OptimizeMenu" /\ ~optimizeMenu.loading /\ nextId <= MaxReq) =>
       (OptimizeSubmitSends <=>
          (optimizeMenu.numDishes = "" \/ NumberOf(optimizeMenu.numDishes) >= 1))
  /\ (mounted = "WasteTrend" /\ ~wasteTrend.loading /\ nextId <= MaxReq
        /\ wasteTrend.startDate # "" /\ wasteTrend.endDate # "") => WasteTrendSubmitSends

\* a request of OptimizeMenu is in flight whose total minimum exceeds the
\* total maximum and which asks for more dishes than it offers
DisorderedValuesSent ==
  \E r \in InFlightOf("OptimizeMenu", KOptimize) :
    /\ r.payload.total_quantity_range[1] > r.payload.total_quantity_range[2]
    /\ r.payload.num_dishes > Len(r.payload.available_dishes)

\* C7 as stated: OptimizeMenu sends for every submit regardless of the
\* values, and WasteTrend whenever both dates are chosen
EverySubmitSends ==
  /\ (mounted = "OptimizeMenu" /\ ~optimizeMenu.loading /\ nextId <= MaxReq) => OptimizeSubmitSends
  /\ (mounted = "WasteTrend" /\ ~wasteTrend.loading /\ nextId <= MaxReq
        /\ wasteTrend.startDate # "" /\ wasteTrend.endDate # "") => WasteTrendSubmitSends

\* ------------------------------------------------------------------------- C8
\* C8: App declares a Route for every link target of Navbar, so the current
\* path always matches a Route
EveryPathRouted == path \in RoutePaths

\* ------------------------------------------------------------------------- C9
\* C9: an unmount cancels nothing: the requests in flight stay in flight
\* when the mounted component changes, and when the response of a request
\* whose instance is no longer mounted arrives, its handler runs and calls
\* state setters of that instance.
NoCancelOnUnmount ==
  [][ /\ (mounted' # mounted \/ inst' # inst) => requests \subseteq requests'
      /\ \A r \in requests : (~Live(r) /\ r \notin requests') => lateCalls' # {}
    ]_vars

\* the handler of a request has run after its instance was unmounted
SettersCalledAfterUnmount ==
  /\ lateCalls # {}
  /\ observed # NoPage

\* ------------------------------------------------------------------------ C10
\* C10: requests are issued on mount and on submit only, and nothing is kept
\* between mounts: a field edit, checkbox toggle or row change sends nothing;
\* every mount starts from the initial view state and issues the on-mount
\* GETs of its page, each once, whatever was mounted and loaded before; and
\* no later step of the instance issues an on-mount GET again.
RequestsOnMountAndSubmitOnly ==
  [][ /\ (requests' # requests \/ nextId' # nextId) => ~EditStep
      /\ inst' # inst =>
           /\ Cardinality(requests' \ requests) = MountFetches(mounted')
           /\ {r.kind : r \in requests' \ requests} = MountKinds(mounted')
           /\ \A r \in requests' \ requests : r.page = mounted' /\ r.inst = inst'
           /\ menu' = MenuInitial
           /\ trashOfToday' = TrashInitial
           /\ optimizeMenu' = OptimizeInitial
           /\ metrics' = MetricsInitial
           /\ wasteTrend' = WasteTrendInitial
           /\ admin' = AdminInitial
      /\ inst' = inst =>
           \A r \in requests' \ requests : r.kind \in FormKinds /\ r.page \notin {"Menu", "TrashOfToday"}
    ]_vars

\* Menu is mounted for the second time, after the fetch of the first mount
\* was answered: it is back in its initial state and has fetched again
MenuFetchesAgain ==
  /\ mounted = "Menu"
  /\ inst = 2
  /\ menu = MenuInitial
  /\ requests = {MenuFetch(2, 2)}

\* ------------------------------------------------------------------------ C11
\* C11: a mounted Menu is loading exactly while its GET /dishes_waste_rates
\* is in flight, and shows neither dishes nor an error while loading; the
\* step that handles the response leaves loading false with error null and
\* dishes the dishes field (the empty list when the body has none) after a
\* success, and with error set after a failure; loading never becomes true
\* again on that instance; the dish list is rendered only when loading is
\* false and error is null.
MenuLoadingMachine ==
  /\ [](mounted = "Menu" =>
          /\ menu.loading <=> InFlightOf("Menu", KDishes) # {}
          /\ menu.loading => menu.error = nullText /\ menu.dishes = <<>>
          /\ MenuView(menu) = "dishes" => ~menu.loading /\ menu.error = nullText)
  /\ [][ /\ \A r \in requests \ requests' :
              (Live(r) /\ r.page = "Menu") =>
                \A o \in Outcomes(DishesBodies) :
                  MenuResponse(r, o) =>
                    /\ ~menu'.loading
                    /\ o.ok => /\ menu'.error = nullText
                               /\ menu'.dishes =
                                    IF "dishes" \in DOMAIN o.body THEN o.body.dishes ELSE <<>>
                    /\ ~o.ok => menu'.error # nullText /\ menu'.dishes = <<>>
         /\ (mounted = "Menu" /\ inst' = inst /\ mounted' = mounted /\ ~menu.loading) => ~menu'.loading
       ]_vars

\* the fetch of the mounted Menu has failed: loading is over and the error is shown
MenuFailedAndLoaded ==
  /\ mounted = "Menu"
  /\ ~menu.loading
  /\ menu.error # nullText
  /\ MenuView(menu) = "error"

\* ------------------------------------------------------------------------ C12
\* C12: a mounted TrashOfToday has status 'loading' exactly while its GET is
\* in flight; the step that handles the response sets status to 'ok' and
\* data to the body after a success and status to 'empty' after a failure;
\* after that step the state of the instance never changes again; the dish
\* card is rendered exactly when status is 'ok' and data has a top_dish, and
\* the placeholder in every other case that is not loading.
TrashStatusMachine ==
  /\ [](mounted = "TrashOfToday" =>
          /\ trashOfToday.status \in {"loading", "ok", "empty"}
          /\ trashOfToday.status = "loading" <=> InFlightOf("TrashOfToday", KTopDish) # {}
          /\ trashOfToday.status # "ok" => trashOfToday.data = null
          /\ TrashView(trashOfToday) = "dish card" <=>
               (trashOfToday.status = "ok" /\ "top_dish" \in DOMAIN trashOfToday.data)
          /\ (trashOfToday.status # "loading" /\ TrashView(trashOfToday) # "dish card") =>
               TrashView(trashOfToday) = "No data for today yet")
  /\ [][ /\ \A r \in requests \ requests' :
              (Live(r) /\ r.page = "TrashOfToday") =>
                \A o \in Outcomes(TopDishBodies(r)) :
                  TrashResponse(r, o) =>
                    IF o.ok
                      THEN trashOfToday'.status = "ok" /\ trashOfToday'.data = o.body
                      ELSE trashOfToday'.status = "empty" /\ trashOfToday'.data = null
         /\ (mounted = "TrashOfToday" /\ inst' = inst /\ mounted' = mounted
               /\ trashOfToday.status # "loading") => trashOfToday' = trashOfToday
       ]_vars

\* the GET succeeded with a body without top_dish: status is 'ok' and the
\* placeholder is rendered
TrashOkWithoutDish ==
  /\ mounted = "TrashOfToday"
  /\ trashOfToday.status = "ok"
  /\ "top_dish" \notin DOMAIN trashOfToday.data
  /\ TrashView(trashOfToday) = "No data for today yet"

\* ------------------------------------------------------------------------ C13
\* C13: the body OptimizeMenu posts to /optimize_menu carries the form as it
\* is when submit is handled: available_dishes is selectedIds,
\* total_quantity_range the numbers of totalMin and totalMax, num_dishes the
\* number of numDishes, category_requirements the requirements, and
\* dish_constraints one numeric {min, max} entry for every fetched dish,
\* selected or not.
OptimizePayloadIsForm ==
  [][ OptimizeSubmit =>
        /\ Cardinality(requests' \ requests) = 1
        /\ \A r \in requests' \ requests :
             /\ r.kind = KOptimize
             /\ r.payload.available_dishes = optimizeMenu.selectedIds
             /\ r.payload.total_quantity_range =
                  <<NumberOf(optimizeMenu.totalMin), NumberOf(optimizeMenu.totalMax)>>
             /\ r.payload.num_dishes = NumberOf(optimizeMenu.numDishes)
             /\ r.payload.category_requirements = optimizeMenu.requirements
             /\ DOMAIN r.payload.dish_constraints =
                  {optimizeMenu.dishes[k].id : k \in 1 .. Len(optimizeMenu.dishes)}
             /\ \A id \in DOMAIN r.payload.dish_constraints :
                  /\ DOMAIN r.payload.dish_constraints[id] = {"min", "max"}
                  /\ r.payload.dish_constraints[id].min \in Nat
                  /\ r.payload.dish_constraints[id].max \in Nat
                  /\ r.payload.dish_constraints[id].min = NumberOf(optimizeMenu.constraints[id].min)
                  /\ r.payload.dish_constraints[id].max = NumberOf(optimizeMenu.constraints[id].max)
    ]_vars

\* a request is in flight that carries the constraints of a dish it does not offer
DeselectedDishConstrained ==
  \E r \in InFlightOf("OptimizeMenu", KOptimize) :
    \E id \in DOMAIN r.payload.dish_constraints : ~Includes(r.payload.available_dishes, id)

MetricsResultXorError ==
  /\ metrics.impact = null \/ metrics.impactError = nullText
  /\ metrics.topDishDay = null \/ metrics.dayError = nullText

\* ------------------------------------------------------------------------ C17
\* C17: in Admin, WasteTrend and OptimizeMenu loading is true exactly while
\* the mounted instance has a submitted request in flight: it is true from
\* the moment the request is sent, the submit button does nothing while it
\* is true, so at most one request is in flight, and once that request is
\* answered, with success or with failure, loading is false again.
LoadingWhileInFlight ==
  /\ mounted = "Admin" =>
       /\ admin.loading <=> InFlightOf("Admin", KAddDay) # {}
       /\ Cardinality(InFlightOf("Admin", KAddDay)) <= 1
       /\ admin.loading => ~ENABLED AdminSubmit
  /\ mounted = "WasteTrend" =>
       /\ wasteTrend.loading <=> InFlightOf("WasteTrend", KTrend) # {}
       /\ Cardinality(InFlightOf("WasteTrend", KTrend)) <= 1
       /\ wasteTrend.loading => ~ENABLED WasteTrendSubmit
  /\ mounted = "OptimizeMenu" =>
       /\ optimizeMenu.loading <=> InFlightOf("OptimizeMenu", KOptimize) # {}
       /\ Cardinality(InFlightOf("OptimizeMenu", KOptimize)) <= 1
       /\ optimizeMenu.loading => ~ENABLED OptimizeSubmit

\* the request of Admin failed and the form is out of 'Saving...'
AdminNotStuckAfterFailure ==
  /\ mounted = "Admin"
  /\ nextId > 1
  /\ InFlightOf("Admin", KAddDay) = {}
  /\ admin.status # null
  /\ admin.status.type = "error"
  /\ ~admin.loading

\* ------------------------------------------------------------------------ C18
\* C18: when POST /add_day succeeds Admin shows the message of the response
\* as a success and resets the form: date and totalWaste empty, servings one
\* blank row; when it fails Admin shows an error and date, totalWaste and
\* servings stay as they were.
AdminSubmitOutcome ==
  [][ \A r \in requests \ requests' :
        (Live(r) /\ r.page = "Admin") =>
          \A o \in Outcomes(AddDayBodies(r)) :
            AdminResponse(r, o) =>
              IF o.ok
                THEN /\ admin'.status = [type |-> "success", message |-> o.body.message]
                     /\ admin'.date = ""
                     /\ admin'.totalWaste = ""
                     /\ admin'.servings = <<[dish_name |-> "", quantity |-> "", image_path |-> ""]>>
                ELSE /\ admin'.status # null
                     /\ admin'.status.type = "error"
                     /\ admin'.date = admin.date
                     /\ admin'.totalWaste = admin.totalWaste
                     /\ admin'.servings = admin.servings
    ]_vars

\* the request failed and the form still holds what was entered
AdminFailedFormKept ==
  /\ mounted = "Admin"
  /\ InFlightOf("Admin", KAddDay) = {}
  /\ admin.status # null
  /\ admin.status.type = "error"
  /\ admin.date # ""
  /\ admin.totalWaste # ""
  /\ admin.servings[1].dish_name # ""

\* ------------------------------------------------------------------------ C19
\* C19: the servings of Admin are never empty; removing the only row leaves
\* one blank row; removing row i of several leaves the other rows in their
\* order; handleServingChange(i, field, v) changes that field of row i and
\* nothing else; addServingRow appends one blank row.
ServingsNeverEmpty ==
  /\ [](Len(admin.servings) >= 1)
  /\ [][ /\ AdminRemoveRow =>
              /\ admin' = [admin EXCEPT !.servings = admin'.servings]
              /\ IF Len(admin.servings) = 1
                   THEN admin'.servings = <<[dish_name |-> "", quantity |-> "", image_path |-> ""]>>
                   ELSE /\ Len(admin'.servings) = Len(admin.servings) - 1
                        /\ \E i \in 1 .. Len(admin.servings) :
                             \A k \in 1 .. Len(admin'.servings) :
                               admin'.servings[k] = admin.servings[IF k < i THEN k ELSE k + 1]
         /\ AdminServingChange =>
              /\ admin' = [admin EXCEPT !.servings = admin'.servings]
              /\ Len(admin'.servings) = Len(admin.servings)
              /\ \E i \in 1 .. Len(admin.servings) : \E field \in {"dish_name", "quantity", "image_path"} :
                   \A k \in 1 .. Len(admin.servings) : \A f \in {"dish_name", "quantity", "image_path"} :
                     (k # i \/ f # field) => admin'.servings[k][f] = admin.servings[k][f]
         /\ AdminAddRow =>
              admin'.servings =
                Append(admin.servings, [dish_name |-> "", quantity |-> "", image_path |-> ""])
       ]_vars

\* two different rows, and removing the first leaves exactly the second
FirstOfTwoRowsRemoved ==
  /\ mounted = "Admin"
  /\ Len(admin.servings) = 2
  /\ admin.servings[1] # admin.servings[2]
  /\ ENABLED (AdminRemoveRow /\ admin'.servings = <<admin.servings[2]>>)

DashboardActiveOnDropdownPaths == path \in DropdownTargets => isDashboardActive

\* ------------------------------------------------------------------------ C22
\* the sum of the total_waste of the first n days, a day without the field
\* counting as 0
RECURSIVE WasteOfFirst(_, _)
WasteOfFirst(days, n) ==
  IF n = 0 THEN 0
  ELSE WasteOfFirst(days, n - 1) +
         (IF "total_waste" \in DOMAIN days[n] THEN days[n].total_waste ELSE 0)

\* the non-empty dish names served on the days
NamesServed(days) ==
  UNION { {days[d].servings[k].dish_name : k \in 1 .. Len(days[d].servings)} \ {""} :
          d \in {e \in 1 .. Len(days) : "servings" \in DOMAIN days[e]} }

====
